---------------------------- MODULE Spec2Model ----------------------------
(***************************************************************************)
(* TrashSort, myapp/views.py: the nearest-dump-yard pipeline.              *)
(*                                                                         *)
(* One request to find_dumpyards is followed from the reading of its query *)
(* parameters to its response.  Every outbound HTTP call of the handler    *)
(* and of the functions it calls is one step; the provider's answer is the *)
(* step's input.  Python values are tagged records (None, numbers, text);  *)
(* text is a sequence of one-character strings so that the normalisers are *)
(* computed character by character, as the code computes them.             *)
(***************************************************************************)
EXTENDS Integers, Sequences, FiniteSets, TLC

VARIABLES
    pc,          \* position of the request in the code
    req,         \* request.GET: the query parameters address, lat, lng, city, area
    lat,         \* find_dumpyards locals lat and lng: the query parameters
    lng,         \*   until a resolver or geolocation replaces them
    geo_dbg,     \* Unassigned until a resolver has returned its debug value
    norm,        \* _address_to_latlng_with_debug: the normalized address
    attempts,    \* _address_to_latlng_with_debug: debug["attempts"]
    ncity,       \* _geocode_city_area: city after _normalize_place_text
    narea,       \* _geocode_city_area: area after _normalize_place_text
    city_query,  \* _geocode_city_area locals
    city_lat,
    city_lng,
    variants,    \* area_variants still to be tried by find-place
    steps,       \* _geocode_city_area: dbg["steps"]
    lat_f,       \* find_dumpyards: the parsed origin
    lng_f,
    candidates,  \* result of _places_nearby / argument of _distance_matrix
    elements,    \* _distance_matrix: rows[0].elements of the provider's answer
    ranked,      \* result of _distance_matrix
    calls,       \* every outbound provider call made so far, in order
    resp,        \* the handler's outcome: NoResp, a JsonResponse, or Raised
    post,        \* contact: the request it was last called with
    feedbacks,   \* the rows of Feedback, in the order of their creation
    contact_messages,  \* the rows of ContactMessage, in order
    context      \* contact: the keys of the context it last rendered

vars == <<pc, req, lat, lng, geo_dbg, norm, attempts,
          ncity, narea, city_query, city_lat, city_lng, variants, steps,
          lat_f, lng_f, candidates, elements, ranked, calls, resp,
          post, feedbacks, contact_messages, context>>

-----------------------------------------------------------------------------
(* Python values *)

\* find_dumpyards locals that are never assigned again (lines 1722, 1725, 1726)
address == req.address
city == req.city
area == req.area

None == [t |-> "none"]
Num(n) == [t |-> "num", v |-> n]
Str(s) == [t |-> "str", v |-> s]

\* Python truthiness of None, a number, a string
Truthy(v) ==
    CASE v.t = "none" -> FALSE
      [] v.t = "num" -> v.v # 0
      [] v.t = "str" -> Len(v.v) > 0

\* `x or ""` for a query parameter that is None or a string
OrEmpty(v) == IF Truthy(v) THEN v.v ELSE <<>>

-----------------------------------------------------------------------------
(* Characters and text *)

LowerAlpha == <<"a","b","c","d","e","f","g","h","i","j","k","l","m",
                "n","o","p","q","r","s","t","u","v","w","x","y","z">>
UpperAlpha == <<"A","B","C","D","E","F","G","H","I","J","K","L","M",
                "N","O","P","Q","R","S","T","U","V","W","X","Y","Z">>
Digits == <<"0","1","2","3","4","5","6","7","8","9">>
Whitespace == {" ", "\t"}

IndexIn(c, seq) ==
    IF \E i \in 1..Len(seq) : seq[i] = c
    THEN CHOOSE i \in 1..Len(seq) : seq[i] = c
    ELSE 0

IsLowerCh(c) == IndexIn(c, LowerAlpha) # 0
IsUpperCh(c) == IndexIn(c, UpperAlpha) # 0
IsAlphaCh(c) == IsLowerCh(c) \/ IsUpperCh(c)
IsDigitCh(c) == IndexIn(c, Digits) # 0
IsSpaceCh(c) == c \in Whitespace

LowerCh(c) == IF IsUpperCh(c) THEN LowerAlpha[IndexIn(c, UpperAlpha)] ELSE c
UpperCh(c) == IF IsLowerCh(c) THEN UpperAlpha[IndexIn(c, LowerAlpha)] ELSE c

\* str.lower, str.upper, str.capitalize, str.isalpha
Lower(s) == [i \in 1..Len(s) |-> LowerCh(s[i])]
Upper(s) == [i \in 1..Len(s) |-> UpperCh(s[i])]
Capitalize(s) ==
    [i \in 1..Len(s) |-> IF i = 1 THEN UpperCh(s[i]) ELSE LowerCh(s[i])]
IsAlpha(s) == Len(s) > 0 /\ \A i \in 1..Len(s) : IsAlphaCh(s[i])

\* str.strip
RECURSIVE LStrip(_)
LStrip(s) ==
    IF s # <<>> /\ IsSpaceCh(Head(s)) THEN LStrip(Tail(s)) ELSE s
RECURSIVE RStrip(_)
RStrip(s) ==
    IF s # <<>> /\ IsSpaceCh(s[Len(s)])
    THEN RStrip(SubSeq(s, 1, Len(s) - 1))
    ELSE s
Strip(s) == RStrip(LStrip(s))

\* str.split(): the maximal runs of non-whitespace characters
RECURSIVE SplitFrom(_, _, _)
SplitFrom(s, cur, acc) ==
    IF s = <<>>
    THEN IF cur = <<>> THEN acc ELSE Append(acc, cur)
    ELSE IF IsSpaceCh(Head(s))
         THEN SplitFrom(Tail(s), <<>>,
                        IF cur = <<>> THEN acc ELSE Append(acc, cur))
         ELSE SplitFrom(Tail(s), Append(cur, Head(s)), acc)
Split(s) == SplitFrom(s, <<>>, <<>>)

\* sep.join(tokens)
RECURSIVE Join(_, _)
Join(toks, sep) ==
    IF toks = <<>> THEN <<>>
    ELSE IF Len(toks) = 1 THEN toks[1]
    ELSE toks[1] \o sep \o Join(Tail(toks), sep)

\* a normalization that trims and leaves the inner whitespace alone
StripOnly(s) == Strip(s)

\* " ".join(text.strip().split())
CollapseSpaces(s) == Join(Split(Strip(s)), <<" ">>)

\* s[i:] starts with w, ignoring case (i is 1-based)
MatchAtCI(s, i, w) ==
    /\ i >= 1
    /\ i + Len(w) - 1 <= Len(s)
    /\ \A k \in 1..Len(w) : LowerCh(s[i + k - 1]) = LowerCh(w[k])

\* `sub in s`
Contains(s, sub) ==
    \E i \in 1..(Len(s) + 1) :
        /\ i + Len(sub) - 1 <= Len(s)
        /\ \A k \in 1..Len(sub) : s[i + k - 1] = sub[k]

India == <<"i","n","d","i","a">>
CommaIndia == <<",", " ", "I","n","d","i","a">>

\* a normalization that appends the suffix to every non-empty text
WithCountryAlways(s) == IF s # <<>> THEN s \o CommaIndia ELSE s

\* views.py 1439-1440 and 1576-1577: bias to India when no country is named
WithCountry(s) ==
    IF s # <<>> /\ ~Contains(Lower(s), India) THEN s \o CommaIndia ELSE s

-----------------------------------------------------------------------------
(* _normalize_place_text, views.py 1-25 *)

University == <<"u","n","i","v","e","r","s","i","t","y">>
College == <<"c","o","l","l","e","g","e">>
Institute == <<"i","n","s","t","i","t","u","t","e">>
Technology == <<"t","e","c","h","n","o","l","o","g","y">>
School == <<"s","c","h","o","o","l">>

\* the list of line 12, in its order
SuffixWords == <<University, College, Institute, Technology, School>>

\* re.sub(r"(?i)([a-z])(word)", r"\1 \2", s): leftmost non-overlapping matches
\* of a letter followed by the word; a match consumes the letter and the word
RECURSIVE SubJammedFrom(_, _, _)
SubJammedFrom(s, i, w) ==
    IF i > Len(s) THEN <<>>
    ELSE IF IsAlphaCh(s[i]) /\ MatchAtCI(s, i + 1, w)
         THEN <<s[i], " ">> \o SubSeq(s, i + 1, i + Len(w))
                  \o SubJammedFrom(s, i + 1 + Len(w), w)
         ELSE <<s[i]>> \o SubJammedFrom(s, i + 1, w)
SubJammed(s, w) == SubJammedFrom(s, 1, w)

\* the loop of lines 12-13
RECURSIVE SplitSuffixes(_, _)
SplitSuffixes(s, k) ==
    IF k > Len(SuffixWords) THEN s
    ELSE SplitSuffixes(SubJammed(s, SuffixWords[k]), k + 1)

\* line 15: re.sub(r"(?i)^lj\s*", "LJ ", s)
SubLjPrefix(s) ==
    IF MatchAtCI(s, 1, <<"l","j">>)
    THEN <<"L","J"," ">> \o LStrip(SubSeq(s, 3, Len(s)))
    ELSE s

\* line 17: re.sub(r"(?i)^(lj)(university)", r"LJ University", s)
SubLjUniversity(s) ==
    IF MatchAtCI(s, 1, <<"l","j">> \o University)
    THEN <<"L","J"," ","U">> \o Tail(University) \o SubSeq(s, 13, Len(s))
    ELSE s

\* a title-casing without the rule for short tokens
TitleTokenCapitalized(tok) == Capitalize(tok)

\* lines 19-25: short alphabetic tokens upper-cased, the others capitalized
TitleToken(tok) ==
    IF Len(tok) <= 3 /\ IsAlpha(tok) THEN Upper(tok) ELSE Capitalize(tok)
TitleCase(s) ==
    LET toks == Split(s)
    IN Join([i \in 1..Len(toks) |-> TitleToken(toks[i])], <<" ">>)

_normalize_place_text(text) ==
    LET s == CollapseSpaces(text)
    IN IF s = <<>> THEN s
       ELSE TitleCase(SubLjUniversity(SubLjPrefix(SplitSuffixes(s, 1))))

\* views.py 1616: re.sub(r"(?<=\D)(?=University|College|Institute|Technology|
\* School)", " ", area, flags=re.I): a space at every position that follows a
\* non-digit character and where one of the words starts
RECURSIVE SplitVariantFrom(_, _)
SplitVariantFrom(s, i) ==
    IF i > Len(s) THEN <<>>
    ELSE (IF /\ i > 1
             /\ ~IsDigitCh(s[i - 1])
             /\ \E k \in 1..Len(SuffixWords) : MatchAtCI(s, i, SuffixWords[k])
          THEN <<" ">> ELSE <<>>)
         \o <<s[i]>> \o SplitVariantFrom(s, i + 1)
SplitVariant(s) == SplitVariantFrom(s, 1)

\* a variant list that starts with one more copy of the area
AreaVariantsRetried(a) ==
    IF a # <<>> THEN <<a, a, a>> ELSE <<>>

\* views.py 1612-1617: the texts find-place is asked for, in order
AreaVariants(a) ==
    LET all == IF a # <<>> /\ ~Contains(a, <<" ">>)
               THEN <<a, SplitVariant(a)>>
               ELSE <<a>>
    IN SelectSeq(all, LAMBDA v : v # <<>>)

-----------------------------------------------------------------------------
(* Bounds and the inputs a request and the providers can supply *)

\* longest result list the nearby-search provider returns to the handler
MaxNearby == 1
\* longest candidate list _distance_matrix is called with on its own
MaxPlaces == 3

\* a coordinate component in a provider's answer: absent/null, zero, non-zero
CoordVals == {None, Num(0), Num(1)}

\* what a geocoding provider (address-validation, text-search, find-place)
\* can answer:
\*   error      the call raised, or the body is no JSON object: the exception
\*              is raised before the attempt is logged
\*   malformed  a JSON object, logged, in which a nested field has the wrong
\*              shape (null geocode, first result without geometry/location):
\*              the exception is raised after the attempt is logged
\*   empty      a JSON object without results / candidates
\*   loc        a first result with a location object whose lat and lng are
\*              r.lat and r.lng, each possibly absent
GeoAnswer(k, la, ln) == [kind |-> k, lat |-> la, lng |-> ln]
\* the coordinates of a location object: none, one, both with a zero, both
LocPairs == {<<None, None>>, <<Num(1), None>>, <<Num(0), Num(1)>>, <<Num(1), Num(1)>>}
LocAnswers == {GeoAnswer("loc", p[1], p[2]) : p \in LocPairs}
\* address-validation has no result list: "no geocode" is loc(None, None)
ValidationAnswers ==
    {GeoAnswer("error", None, None), GeoAnswer("malformed", None, None)}
        \cup LocAnswers
SearchAnswers ==
    {GeoAnswer("error", None, None), GeoAnswer("malformed", None, None),
     GeoAnswer("empty", None, None)} \cup LocAnswers

\* the geolocation provider: an exception, or a body whose location object
\* has the four optional fields the code reads
GeolocateAnswers ==
    {[kind |-> "error", lat |-> None, latitude |-> None,
      lng |-> None, longitude |-> None]}
    \cup {[kind |-> "body", lat |-> a, latitude |-> b, lng |-> c, longitude |-> d] :
            a \in CoordVals, b \in CoordVals,
            c \in {None, Num(1)}, d \in {None, Num(1)}}

\* a facility of the nearby-search result
Place(i) == [place_id |-> i, name |-> <<"yard", i>>, lat |-> 10 + i, lng |-> 20 + i]
PlaceList(n) == [i \in 1..n |-> Place(i)]

\* one element of rows[0].elements: (duration seconds, distance meters) when OK
OkElements ==
    {[status |-> "OK", duration |-> 300, distance |-> 1000],
     [status |-> "OK", duration |-> 600, distance |-> 900],
     [status |-> "OK", duration |-> 400, distance |-> 1000],
     [status |-> "OK", duration |-> 400, distance |-> 900]}
ElementVals == OkElements \cup {[status |-> "ZERO_RESULTS"]}
\* the element lists a provider can answer for n destinations: one element per
\* destination, or fewer (an error status answers with no rows)
ElementLists(n) == UNION {[1..k -> ElementVals] : k \in 0..n}

\* query parameters of the request
TxtBlank == <<" ">>
TxtAddr == <<"m","g"," "," ","r","d">>
TxtCity == <<"p","u","n","e">>
TxtArea == <<"o","l","d">>
TxtJammed == <<"l","j","u","n","i","v","e","r","s","i","t","y">>
\* the query parameters find_dumpyards reads, lines 1722-1726
Requests ==
    [address : {None, Str(TxtBlank), Str(TxtAddr)},
     lat : {None, Str(<<"7">>), Str(<<"x">>)},
     lng : {None, Str(<<"8">>)},
     city : {None, Str(TxtCity)},
     area : {None, Str(TxtArea), Str(TxtJammed)}]

-----------------------------------------------------------------------------
(* Shared pieces of the steps *)

NoResp == [kind |-> "none"]
\* an exception left the handler
Raised == [kind |-> "exception"]
JsonResponse(b, st) == [kind |-> "json", status |-> st, body |-> b]
Unassigned == [t |-> "unassigned"]
Done == resp # NoResp

\* the coordinate a geocoding answer yields: both components, or nothing
Yielded(r) ==
    IF r.kind = "loc" /\ r.lat # None /\ r.lng # None
    THEN <<r.lat, r.lng>>
    ELSE <<None, None>>

\* one outbound call: the endpoint, the text sent, the location bias (or
\* <<None, None>>), and the coordinate the answer yielded
Call(api, q, bias, got) == [api |-> api, query |-> q, bias |-> bias, got |-> got]
NoBias == <<None, None>>

\* the entries a resolver appends to its trail for one provider: the except
\* branch appends an error entry; an answer that was parsed was logged first
Entry(type, err) == [type |-> type, error |-> err]
Logged(trail, type, r) ==
    CASE r.kind = "error" -> Append(trail, Entry(type, TRUE))
      [] r.kind = "malformed" -> trail \o <<Entry(type, FALSE), Entry(type, TRUE)>>
      [] OTHER -> Append(trail, Entry(type, FALSE))

\* what find_dumpyards only reads or never touches: its request, and the
\* contact view's request, tables and context
reqv == <<req, post, feedbacks, contact_messages, context>>
addrv == <<norm, attempts>>
cityv == <<ncity, narea, city_query, city_lat, city_lng, variants, steps>>
rankv == <<lat_f, lng_f, candidates, elements, ranked>>

\* a resolver returns (la, ln, dbg) to find_dumpyards, line 1731 or 1733
ResolverReturns(la, ln, dbg) ==
    /\ lat' = la
    /\ lng' = ln
    /\ geo_dbg' = dbg
    /\ pc' = "resolved"

-----------------------------------------------------------------------------
(* _address_to_latlng_with_debug, views.py 1435-1484 *)

\* a normalization that keeps the whitespace of the address
NormalizeKeepingBlanks(a) == WithCountry(a)

\* lines 1438-1440
normalize_address(a) == WithCountry(CollapseSpaces(a))

AddrDebug(att) == [normalized |-> norm, attempts |-> att]

\* line 1453: `if lat is not None and lng is not None: return`
ValidationReturns(r) == r.kind = "loc" /\ r.lat # None /\ r.lng # None

\* lines 1465 and 1478: `if results:` / `if candidates:` then return the first
\* result's loc.get("lat"), loc.get("lng")
SearchReturns(r) == r.kind = "loc"

\* the provider tried after the one at this position has not returned
AddrNext(p) ==
    CASE p = "addr_av" -> "addr_ts"
      [] p = "addr_ts" -> "addr_fp"
      [] p = "addr_fp" -> "addr_end"

\* control leaves a provider's try block without a return
AddrFallsThrough(p, att) ==
    IF AddrNext(p) = "addr_end"
    THEN ResolverReturns(None, None, AddrDebug(att))
    ELSE /\ pc' = AddrNext(p)
         /\ UNCHANGED <<lat, lng, geo_dbg>>

\* lines 1445-1456
AddrValidation ==
    /\ pc = "addr_av"
    /\ \E r \in ValidationAnswers :
         LET att == Logged(attempts, "addressvalidation", r)
         IN /\ calls' = Append(calls,
                          Call("addressvalidation", norm, NoBias, Yielded(r)))
            /\ attempts' = att
            /\ IF r.kind = "loc" /\ ValidationReturns(r)
               THEN ResolverReturns(r.lat, r.lng, AddrDebug(att))
               ELSE AddrFallsThrough("addr_av", att)
    /\ UNCHANGED <<reqv, norm, cityv, rankv, resp>>

\* lines 1458-1469
AddrTextSearch ==
    /\ pc = "addr_ts"
    /\ \E r \in SearchAnswers :
         LET att == Logged(attempts, "textsearch", r)
         IN /\ calls' = Append(calls, Call("textsearch", norm, NoBias, Yielded(r)))
            /\ attempts' = att
            /\ IF r.kind = "loc" /\ SearchReturns(r)
               THEN ResolverReturns(r.lat, r.lng, AddrDebug(att))
               ELSE AddrFallsThrough("addr_ts", att)
    /\ UNCHANGED <<reqv, norm, cityv, rankv, resp>>

\* lines 1471-1484
AddrFindPlace ==
    /\ pc = "addr_fp"
    /\ \E r \in SearchAnswers :
         LET att == Logged(attempts, "findplace", r)
         IN /\ calls' = Append(calls, Call("findplace", norm, NoBias, Yielded(r)))
            /\ attempts' = att
            /\ IF r.kind = "loc" /\ SearchReturns(r)
               THEN ResolverReturns(r.lat, r.lng, AddrDebug(att))
               ELSE AddrFallsThrough("addr_fp", att)
    /\ UNCHANGED <<reqv, norm, cityv, rankv, resp>>

-----------------------------------------------------------------------------
(* _geolocate, views.py 1534-1548 *)

\* `a or b`
PyOr(a, b) == IF Truthy(a) THEN a ELSE b

_geolocate(r) ==
    IF r.kind = "error" THEN <<None, None>>
    ELSE LET la == PyOr(r.lat, r.latitude)
             ln == PyOr(r.lng, r.longitude)
         IN IF la # None /\ ln # None THEN <<la, ln>> ELSE <<None, None>>

-----------------------------------------------------------------------------
(* _distance_matrix, views.py 1675-1713 *)

\* lines 1698-1710: the entry for element el of candidate p
Paired(p, el) ==
    [name |-> p.name, lat |-> p.lat, lng |-> p.lng, place_id |-> p.place_id,
     distance_value |-> el.distance, duration_value |-> el.duration]

\* lines 1694-1710: for idx, el in enumerate(elements): if OK, pair places[idx]
RECURSIVE PairFrom(_, _, _)
PairFrom(places, els, idx) ==
    IF idx > Len(els) THEN <<>>
    ELSE (IF els[idx].status = "OK"
          THEN <<Paired(places[idx], els[idx])>>
          ELSE <<>>)
         \o PairFrom(places, els, idx + 1)
\* a pairing that gives the k-th OK element the k-th candidate
PairPlacesByRank(places, els) ==
    LET oks == SelectSeq(els, LAMBDA el : el.status = "OK")
    IN [k \in 1..Len(oks) |-> Paired(places[k], oks[k])]

PairPlaces(places, els) == PairFrom(places, els, 1)

\* a sort on the duration alone
KeyLessByDuration(x, y) == x.duration_value < y.duration_value

\* the key (duration_value, distance_value) of x sorts strictly before y's
KeyLess(x, y) ==
    \/ x.duration_value < y.duration_value
    \/ /\ x.duration_value = y.duration_value
       /\ x.distance_value < y.distance_value

\* line 1712, list.sort(key=...): stable, so an entry goes after every entry
\* already placed whose key is not greater
RECURSIVE InsertSorted(_, _)
InsertSorted(sorted, x) ==
    IF sorted = <<>> THEN <<x>>
    ELSE IF KeyLess(x, Head(sorted)) THEN <<x>> \o sorted
    ELSE <<Head(sorted)>> \o InsertSorted(Tail(sorted), x)
RECURSIVE SortFrom(_, _, _)
SortFrom(paired, i, acc) ==
    IF i > Len(paired) THEN acc
    ELSE SortFrom(paired, i + 1, InsertSorted(acc, paired[i]))
SortPaired(paired) == SortFrom(paired, 1, <<>>)

\* the provider's answer: an exception (transport, timeout, no JSON) or a body
DistanceAnswers(n) ==
    {[kind |-> "error", elements |-> <<>>]}
    \cup {[kind |-> "body", elements |-> els] : els \in ElementLists(n)}

\* a function that never takes the early return
NoPlacesNever(places) == FALSE

\* line 1677: `if not places:`
NoPlaces(places) == places = <<>>

DistanceMatrix ==
    /\ pc = "dm"
    /\ IF NoPlaces(candidates)
       THEN /\ ranked' = <<>>
            /\ pc' = "ranked"
            /\ UNCHANGED <<elements, calls, resp>>
       ELSE \E r \in DistanceAnswers(Len(candidates)) :
              /\ calls' = Append(calls, Call("distancematrix", <<>>,
                                             <<lat_f, lng_f>>, <<None, None>>))
              /\ IF r.kind = "error"
                 THEN /\ resp' = Raised
                      /\ pc' = "done"
                      /\ UNCHANGED <<elements, ranked>>
                 ELSE /\ elements' = r.elements
                      /\ ranked' = SortPaired(PairPlaces(candidates, r.elements))
                      /\ pc' = "ranked"
                      /\ UNCHANGED resp
    /\ UNCHANGED <<reqv, lat, lng, geo_dbg, addrv, cityv, lat_f, lng_f, candidates>>

-----------------------------------------------------------------------------
(* _geocode_city_area, views.py 1563-1672 *)

CityDebug(st) == [city |-> city, area |-> area, steps |-> st]

\* a test that asks for both components to be missing
CityUnresolvedBoth(la, ln) == la = None /\ ln = None

\* lines 1591 and 1603: `city_lat is None or city_lng is None`
CityUnresolved(la, ln) == la = None \/ ln = None

\* a refinement that tries the biased text search before address-validation
RefineNextSwapped(p) ==
    CASE p = "area_fp" -> "area_ts"
      [] p = "area_av" -> "area_ts"

\* lines 1637-1651: the refinement tried after this one has not returned
RefineNext(p) ==
    CASE p = "area_fp" -> "area_av"
      [] p = "area_av" -> "area_ts"

\* a line that always joins the area and the city
AreaCityLineAlways(a, c) == a \o <<",", " ">> \o c

\* lines 1639 and 1653: f"{area}, {city}" if city else area
AreaCityLine(a, c) == IF c # <<>> THEN a \o <<",", " ">> \o c ELSE a

\* lines 1603-1617, once the city stage has ended with (la, ln)
AfterCityStage(la, ln, st) ==
    IF CityUnresolved(la, ln)
    THEN /\ ResolverReturns(None, None, CityDebug(st))
         /\ UNCHANGED variants
    ELSE IF narea = <<>>
    THEN /\ ResolverReturns(la, ln, CityDebug(st))
         /\ UNCHANGED variants
    ELSE /\ variants' = AreaVariants(narea)
         /\ pc' = "area_fp"
         /\ UNCHANGED <<lat, lng, geo_dbg>>

\* lines 1579-1591
CityTextSearch ==
    /\ pc = "city_ts"
    /\ \E r \in SearchAnswers :
         LET st == Logged(steps, "city_textsearch", r)
             la == IF r.kind = "loc" THEN r.lat ELSE city_lat
             ln == IF r.kind = "loc" THEN r.lng ELSE city_lng
         IN /\ calls' = Append(calls,
                          Call("textsearch", city_query, NoBias, Yielded(r)))
            /\ steps' = st
            /\ city_lat' = la
            /\ city_lng' = ln
            /\ IF CityUnresolved(la, ln)
               THEN /\ pc' = "city_av"
                    /\ UNCHANGED <<lat, lng, geo_dbg, variants>>
               ELSE AfterCityStage(la, ln, st)
    /\ UNCHANGED <<reqv, addrv, ncity, narea, city_query, rankv, resp>>

\* lines 1592-1604
CityAddressValidation ==
    /\ pc = "city_av"
    /\ \E r \in ValidationAnswers :
         LET st == Logged(steps, "city_addressvalidation", r)
             la == IF r.kind = "loc" THEN r.lat ELSE city_lat
             ln == IF r.kind = "loc" THEN r.lng ELSE city_lng
         IN /\ calls' = Append(calls,
                          Call("addressvalidation", city_query, NoBias, Yielded(r)))
            /\ steps' = st
            /\ city_lat' = la
            /\ city_lng' = ln
            /\ AfterCityStage(la, ln, st)
    /\ UNCHANGED <<reqv, addrv, ncity, narea, city_query, rankv, resp>>

\* lines 1617-1635: one pass of the loop over area_variants
AreaFindPlace ==
    /\ pc = "area_fp"
    /\ \E r \in SearchAnswers :
         LET st == Logged(steps, "area_findplace", r)
         IN /\ calls' = Append(calls, Call("findplace", Head(variants),
                                           <<city_lat, city_lng>>, Yielded(r)))
            /\ steps' = st
            /\ IF r.kind = "loc" /\ SearchReturns(r)
               THEN /\ ResolverReturns(r.lat, r.lng, CityDebug(st))
                    /\ UNCHANGED variants
               ELSE /\ variants' = Tail(variants)
                    /\ pc' = IF Tail(variants) = <<>>
                             THEN RefineNext("area_fp")
                             ELSE "area_fp"
                    /\ UNCHANGED <<lat, lng, geo_dbg>>
    /\ UNCHANGED <<reqv, addrv, ncity, narea, city_query, city_lat, city_lng,
                   rankv, resp>>

\* lines 1637-1649
AreaAddressValidation ==
    /\ pc = "area_av"
    /\ \E r \in ValidationAnswers :
         LET st == Logged(steps, "area_addressvalidation", r)
         IN /\ calls' = Append(calls, Call("addressvalidation",
                                   AreaCityLine(narea, ncity), NoBias, Yielded(r)))
            /\ steps' = st
            /\ IF r.kind = "loc" /\ ValidationReturns(r)
               THEN ResolverReturns(r.lat, r.lng, CityDebug(st))
               ELSE /\ pc' = RefineNext("area_av")
                    /\ UNCHANGED <<lat, lng, geo_dbg>>
    /\ UNCHANGED <<reqv, addrv, ncity, narea, city_query, city_lat, city_lng,
                   variants, rankv, resp>>

\* line 1672: what is returned when no refinement returned
CityFallback(la, ln) == <<la, ln>>

\* lines 1651-1672
AreaTextSearch ==
    /\ pc = "area_ts"
    /\ \E r \in SearchAnswers :
         LET st == Logged(steps, "area_textsearch_bias", r)
             fb == CityFallback(city_lat, city_lng)
         IN /\ calls' = Append(calls, Call("textsearch",
                                   AreaCityLine(narea, ncity),
                                   <<city_lat, city_lng>>, Yielded(r)))
            /\ steps' = st
            /\ IF r.kind = "loc" /\ SearchReturns(r)
               THEN ResolverReturns(r.lat, r.lng, CityDebug(st))
               ELSE ResolverReturns(fb[1], fb[2], CityDebug(st))
    /\ UNCHANGED <<reqv, addrv, ncity, narea, city_query, city_lat, city_lng,
                   variants, rankv, resp>>

-----------------------------------------------------------------------------
(* find_dumpyards, views.py 1716-1765 *)

\* a handler that lets explicit coordinates win over the address
TakesAddressUnlessCoords(a, la, ln) == Truthy(a) /\ ~(Truthy(la) /\ Truthy(ln))

\* line 1729: `if address:`
TakesAddress(a, la, ln) == Truthy(a)

\* a handler that skips the city/area resolver as soon as lat or lng is given
TakesCityAreaNoCoord(c, a, la, ln) ==
    (Truthy(c) \/ Truthy(a)) /\ ~Truthy(la) /\ ~Truthy(ln)

\* line 1732: `elif (city or area) and not (lat and lng):`
TakesCityArea(c, a, la, ln) ==
    (Truthy(c) \/ Truthy(a)) /\ ~(Truthy(la) /\ Truthy(ln))

\* line 1735: `if not (lat and lng):`
NeedsGeolocate(la, ln) == ~(Truthy(la) /\ Truthy(ln))

\* line 1738: `if g_lat and g_lng:`
GeolocateAccepted(g) == Truthy(g[1]) /\ Truthy(g[2])

\* lines 1722-1733, with the resolvers' code up to their first provider call
\* (1437-1443 and 1568-1578)
Dispatch ==
    /\ pc = "start"
    /\ IF TakesAddress(address, lat, lng)
       THEN LET n == normalize_address(OrEmpty(address))
            IN /\ norm' = n
               /\ IF n = <<>>
                  THEN ResolverReturns(None, None,
                                       [normalized |-> n, attempts |-> <<>>])
                  ELSE /\ pc' = "addr_av"
                       /\ UNCHANGED <<lat, lng, geo_dbg>>
               /\ UNCHANGED <<ncity, narea, city_query>>
       ELSE IF TakesCityArea(city, area, lat, lng)
       THEN LET c == _normalize_place_text(OrEmpty(city))
                a == _normalize_place_text(OrEmpty(area))
            IN /\ ncity' = c
               /\ narea' = a
               /\ IF c = <<>> /\ a = <<>>
                  THEN /\ ResolverReturns(None, None, CityDebug(<<>>))
                       /\ UNCHANGED city_query
                  ELSE /\ city_query' = WithCountry(IF c # <<>> THEN c ELSE a)
                       /\ pc' = "city_ts"
                       /\ UNCHANGED <<lat, lng, geo_dbg>>
               /\ UNCHANGED norm
       ELSE /\ pc' = "resolved"
            /\ UNCHANGED <<lat, lng, geo_dbg, norm, ncity, narea, city_query>>
    /\ UNCHANGED <<reqv, attempts, city_lat, city_lng, variants, steps, rankv,
                   calls, resp>>

\* line 1735
CheckOrigin ==
    /\ pc = "resolved"
    /\ pc' = IF NeedsGeolocate(lat, lng) THEN "geolocate" ELSE "parse"
    /\ UNCHANGED <<reqv, lat, lng, geo_dbg, addrv, cityv, rankv, calls, resp>>

ErrorText == "Please provide a valid address or lat/lng."
HintText == "Ensure GOMAPS_PRO_API_KEY is set and valid. Try a fuller address like 'LJ University, Ahmedabad'."
InvalidText == "Invalid coordinates."

\* lines 1741-1748: reading geo_dbg before any assignment raises
ResolutionError ==
    LET base == [error |-> ErrorText, address_tried |-> OrEmpty(address),
                 city |-> OrEmpty(city), area |-> OrEmpty(area),
                 hint |-> HintText]
    IN IF Truthy(address) \/ Truthy(city) \/ Truthy(area)
       THEN IF geo_dbg = Unassigned
            THEN Raised
            ELSE JsonResponse(base @@ [geocode_debug |-> geo_dbg], 400)
       ELSE JsonResponse(base, 400)

\* lines 1736-1748
Geolocate ==
    /\ pc = "geolocate"
    /\ \E r \in GeolocateAnswers :
         LET g == _geolocate(r)
         IN /\ calls' = Append(calls, Call("geolocate", <<>>, NoBias, g))
            /\ IF GeolocateAccepted(g)
               THEN /\ lat' = g[1]
                    /\ lng' = g[2]
                    /\ pc' = "parse"
                    /\ UNCHANGED resp
               ELSE /\ resp' = ResolutionError
                    /\ pc' = "done"
                    /\ UNCHANGED <<lat, lng>>
    /\ UNCHANGED <<reqv, geo_dbg, addrv, cityv, rankv>>

\* float(str(v).strip()) for a number of a provider's answer or for a query
\* parameter made of decimal digits and surrounding blanks; any other text of
\* the request set raises ValueError
RECURSIVE DigitsValue(_)
DigitsValue(s) ==
    IF s = <<>> THEN 0
    ELSE 10 * DigitsValue(SubSeq(s, 1, Len(s) - 1)) + (IndexIn(s[Len(s)], Digits) - 1)
FloatOk(v) ==
    CASE v.t = "num" -> TRUE
      [] v.t = "str" ->
            LET s == Strip(v.v)
            IN s # <<>> /\ \A i \in 1..Len(s) : IsDigitCh(s[i])
      [] OTHER -> FALSE
ToFloat(v) == IF v.t = "num" THEN v.v ELSE DigitsValue(Strip(v.v))

\* lines 1750-1753
ParseCoords ==
    /\ pc = "parse"
    /\ IF FloatOk(lat) /\ FloatOk(lng)
       THEN /\ lat_f' = Num(ToFloat(lat))
            /\ lng_f' = Num(ToFloat(lng))
            /\ pc' = "nearby"
            /\ UNCHANGED resp
       ELSE /\ resp' = JsonResponse([error |-> InvalidText], 400)
            /\ pc' = "done"
            /\ UNCHANGED <<lat_f, lng_f>>
    /\ UNCHANGED <<reqv, lat, lng, geo_dbg, addrv, cityv, candidates, elements,
                   ranked, calls>>

\* what the nearby-search provider can answer: an exception, or a result list
NearbyAnswers ==
    {[kind |-> "error", results |-> <<>>]}
    \cup {[kind |-> "body", results |-> PlaceList(n)] : n \in 0..MaxNearby}

\* an empty result list answered with the resolution error
EmptyResultAsError(la, ln) ==
    JsonResponse([error |-> ErrorText, hint |-> HintText], 400)

\* line 1758: the response when there is no candidate
EmptyResult(la, ln) == JsonResponse([origin |-> <<la, ln>>, places |-> <<>>], 200)

\* _places_nearby (1551-1560) and lines 1756-1758
PlacesNearby ==
    /\ pc = "nearby"
    /\ \E r \in NearbyAnswers :
         /\ calls' = Append(calls, Call("nearbysearch", <<>>,
                                        <<lat_f, lng_f>>, <<None, None>>))
         /\ IF r.kind = "error"
            THEN /\ resp' = Raised
                 /\ pc' = "done"
                 /\ UNCHANGED candidates
            ELSE IF r.results = <<>>
            THEN /\ resp' = EmptyResult(lat_f, lng_f)
                 /\ pc' = "done"
                 /\ candidates' = r.results
            ELSE /\ candidates' = r.results
                 /\ pc' = "dm"
                 /\ UNCHANGED resp
    /\ UNCHANGED <<reqv, lat, lng, geo_dbg, addrv, cityv, lat_f, lng_f,
                   elements, ranked>>

\* lines 1761-1765
Respond ==
    /\ pc = "ranked"
    /\ resp' = JsonResponse([origin |-> <<lat_f, lng_f>>,
                             places |-> ranked,
                             nearest |-> IF ranked # <<>> THEN ranked[1] ELSE None],
                            200)
    /\ pc' = "done"
    /\ UNCHANGED <<reqv, lat, lng, geo_dbg, addrv, cityv, rankv, calls>>

-----------------------------------------------------------------------------
(* contact, views.py 1776-1811 *)

\* the most rows the two tables hold together
MaxStored == 2

\* no call of contact yet
NoPost == [method |-> "none"]

TxtName == <<" ", "a", " ">>
TxtEmail == <<" ", "e">>
TxtMessage == <<"m">>
TxtComments == <<"c", " ">>
TxtContact == <<"c","o","n","t","a","c","t">>
TxtFeedback == <<"f","e","e","d","b","a","c","k">>

\* the texts a rating field was given: integers inside and outside 1..5,
\* padded, signed, zero-led, with an underscore, and texts int() rejects
RatingTexts ==
    {<<"1">>, <<" ", "5", " ">>, <<"0">>, <<"6">>, <<"x">>, <<"3", ".", "5">>,
     <<"-", "1">>, <<"+", "5">>, <<"0", "5">>, <<"1", "_", "0">>, <<"+", " ", "1">>}

NameVals == {None, Str(TxtBlank), Str(TxtName)}
EmailVals == {None, Str(TxtEmail)}

PostOf(ft, n, e, m, r, c) ==
    [method |-> "POST", form_type |-> ft, name |-> n, email |-> e,
     message |-> m, rating |-> r, comments |-> c]

\* request.POST of a contact form, of a feedback form, and of a form whose
\* form_type is absent or is neither; and a GET
ContactPosts ==
    {PostOf(Str(ft), n, e, m, None, None) :
        ft \in {TxtContact, <<" ">> \o TxtContact},
        n \in NameVals, e \in EmailVals,
        m \in {None, Str(TxtBlank), Str(TxtMessage)}}
FeedbackPosts ==
    {PostOf(Str(TxtFeedback), n, e, None, r, c) :
        n \in NameVals, e \in EmailVals,
        r \in {None} \cup {Str(t) : t \in RatingTexts},
        c \in {Str(TxtComments)}}
OtherPosts ==
    {PostOf(ft, Str(TxtName), Str(TxtEmail), Str(TxtMessage), Str(<<"3">>), None) :
        ft \in {None, Str(<<"o","t","h","e","r">>), Str(Upper(TxtFeedback))}}
Posts == ContactPosts \cup FeedbackPosts \cup OtherPosts \cup {[method |-> "GET"]}

\* (request.POST.get(key) or '').strip()
Field(v) == Strip(OrEmpty(v))

\* digits, with single underscores allowed between two digits
IsIntLiteral(b) ==
    /\ b # <<>>
    /\ \A i \in 1..Len(b) :
          \/ IsDigitCh(b[i])
          \/ /\ b[i] = "_"
             /\ 1 < i
             /\ i < Len(b)
             /\ IsDigitCh(b[i - 1])
             /\ IsDigitCh(b[i + 1])

\* int(s) of a text: surrounding whitespace dropped, an optional sign, then
\* an integer literal; anything else raises ValueError
int(s) ==
    LET t == Strip(s)
        signed == t # <<>> /\ t[1] \in {"+", "-"}
        b == IF signed THEN Tail(t) ELSE t
        v == DigitsValue(SelectSeq(b, LAMBDA ch : ch # "_"))
    IN IF IsIntLiteral(b)
       THEN [ok |-> TRUE, v |-> IF signed /\ t[1] = "-" THEN 0 - v ELSE v]
       ELSE [ok |-> FALSE]

\* lines 1797-1800: rating = int(rating_str), or 0 when int raises
RatingOf(rating_str) ==
    LET r == int(rating_str) IN IF r.ok THEN r.v ELSE 0

\* a rating check that only refuses negative numbers
RatingAcceptedNonNegative(rating) == rating >= 0

\* line 1801: rating in [1, 2, 3, 4, 5]
RatingAccepted(rating) == rating \in {1, 2, 3, 4, 5}

\* objects.create either stores the row or raises; the handler catches what
\* it raises (line 1808)
DbOutcomes == {"stored", "raises"}

\* one call of contact: what it adds to each table, and the context keys
\* it renders
ContactResult(p, db) ==
    LET nothing == [fb |-> <<>>, cm |-> <<>>, ctx |-> {}]
        form_type == Field(p.form_type)
        name == Field(p.name)
        email == Field(p.email)
    IN IF p.method # "POST" THEN nothing
       ELSE IF form_type = TxtContact
       THEN LET message == Field(p.message)
            IN IF ~(name # <<>> /\ email # <<>> /\ message # <<>>)
               THEN [nothing EXCEPT !.ctx = {"contact_error"}]
               ELSE IF db = "raises"
               THEN [nothing EXCEPT !.ctx = {"form_error"}]
               ELSE [fb |-> <<>>,
                     cm |-> <<[name |-> name, email |-> email,
                               subject |-> <<>>, message |-> message]>>,
                     ctx |-> {"contact_success"}]
       ELSE IF form_type = TxtFeedback
       THEN LET rating == RatingOf(Field(p.rating))
                comments == Field(p.comments)
            IN IF name = <<>> \/ ~RatingAccepted(rating)
               THEN [nothing EXCEPT !.ctx = {"feedback_error"}]
               ELSE IF db = "raises"
               THEN [nothing EXCEPT !.ctx = {"form_error"}]
               ELSE [fb |-> <<[name |-> name, email |-> email,
                               rating |-> rating, comments |-> comments]>>,
                     cm |-> <<>>,
                     ctx |-> {"feedback_success"}]
       ELSE nothing

Contact ==
    /\ pc = "contact"
    /\ Len(feedbacks) + Len(contact_messages) < MaxStored
    /\ \E p \in Posts, db \in DbOutcomes :
          LET out == ContactResult(p, db)
          IN /\ post' = p
             /\ feedbacks' = feedbacks \o out.fb
             /\ contact_messages' = contact_messages \o out.cm
             /\ context' = out.ctx
    /\ UNCHANGED <<pc, req, lat, lng, geo_dbg, addrv, cityv, rankv, calls, resp>>

-----------------------------------------------------------------------------
(* Specifications *)

Blank ==
    /\ geo_dbg = Unassigned
    /\ norm = <<>>
    /\ attempts = <<>>
    /\ ncity = <<>>
    /\ narea = <<>>
    /\ city_query = <<>>
    /\ city_lat = None
    /\ city_lng = None
    /\ variants = <<>>
    /\ steps = <<>>
    /\ elements = <<>>
    /\ ranked = <<>>
    /\ calls = <<>>
    /\ resp = NoResp
    /\ post = NoPost
    /\ feedbacks = <<>>
    /\ contact_messages = <<>>
    /\ context = {}

\* one request to find_dumpyards, from its arrival
Init ==
    /\ pc = "start"
    /\ req \in Requests
    /\ lat = req.lat
    /\ lng = req.lng
    /\ lat_f = None
    /\ lng_f = None
    /\ candidates = <<>>
    /\ Blank

Next ==
    \/ Dispatch
    \/ AddrValidation
    \/ AddrTextSearch
    \/ AddrFindPlace
    \/ CityTextSearch
    \/ CityAddressValidation
    \/ AreaFindPlace
    \/ AreaAddressValidation
    \/ AreaTextSearch
    \/ CheckOrigin
    \/ Geolocate
    \/ ParseCoords
    \/ PlacesNearby
    \/ DistanceMatrix
    \/ Respond

Spec == Init /\ [][Next]_vars

\* _distance_matrix called on its own with an origin and a candidate list
InitRank ==
    /\ pc = "dm"
    /\ req = [address |-> None, lat |-> Str(<<"7">>), lng |-> Str(<<"8">>),
              city |-> None, area |-> None]
    /\ lat = req.lat
    /\ lng = req.lng
    /\ lat_f = Num(7)
    /\ lng_f = Num(8)
    /\ candidates \in {PlaceList(n) : n \in 0..MaxPlaces}
    /\ Blank

NextRank == DistanceMatrix

SpecRank == InitRank /\ [][NextRank]_vars

\* longest address text drawn letter by letter
MaxText == 4
TextAlphabet == {" ", "\t", "a", ","}
Texts(n) == UNION {[1..k -> TextAlphabet] : k \in 0..n}
TxtMessy == <<" ", "a", " ", "\t", "a", "\t", " ">>
TxtIndia == <<" ", "N", "e", "w", " ", " ", "I", "N", "D", "I", "A", " ">>
AddrTexts == Texts(MaxText) \cup {TxtMessy, TxtIndia}

\* find_dumpyards called with an address only, up to the normalization of the
\* address by _address_to_latlng_with_debug (lines 1437-1443)
InitAddr ==
    /\ pc = "start"
    /\ req \in [address : {Str(t) : t \in AddrTexts}, lat : {None}, lng : {None},
                city : {None}, area : {None}]
    /\ lat = req.lat
    /\ lng = req.lng
    /\ lat_f = None
    /\ lng_f = None
    /\ candidates = <<>>
    /\ Blank

NextAddr == Dispatch

SpecAddr == InitAddr /\ [][NextAddr]_vars

\* most pieces an area text is made of
MaxPieces == 3
Pieces ==
    {<<"a">>, <<" ">>, <<"1">>, <<".">>, <<"l", "j">>,
     <<"s","c","h","o","o","l">>, <<"C","o","l","l","e","g","e">>, University}
RECURSIVE Flatten(_)
Flatten(ps) == IF ps = <<>> THEN <<>> ELSE Head(ps) \o Flatten(Tail(ps))
PlaceTexts == {Flatten(ps) : ps \in UNION {[1..k -> Pieces] : k \in 0..MaxPieces}}

\* find_dumpyards called with an area only, up to the normalization of the
\* area by _geocode_city_area (lines 1568-1578)
InitPlace ==
    /\ pc = "start"
    /\ req \in [address : {None}, lat : {None}, lng : {None}, city : {None},
                area : {Str(t) : t \in PlaceTexts}]
    /\ lat = req.lat
    /\ lng = req.lng
    /\ lat_f = None
    /\ lng_f = None
    /\ candidates = <<>>
    /\ Blank

NextPlace == Dispatch

SpecPlace == InitPlace /\ [][NextPlace]_vars

TxtAhmedabad == <<"A","h","m","e","d","a","b","a","d">>
TxtPunct == <<"s","t",".","s","c","h","o","o","l">>
TxtDigit == <<"1","s","c","h","o","o","l">>
TxtSpaced == <<"o","l","d"," ","t","o","w","n">>
CityTexts == {TxtBlank, TxtAhmedabad}
AreaTexts == {TxtBlank, TxtArea, TxtJammed, TxtPunct, TxtDigit, TxtSpaced}

\* find_dumpyards called with city and area only, up to the return of
\* _geocode_city_area (line 1733)
InitCity ==
    /\ pc = "start"
    /\ req \in [address : {None}, lat : {None}, lng : {None},
                city : {None} \cup {Str(t) : t \in CityTexts},
                area : {None} \cup {Str(t) : t \in AreaTexts}]
    /\ lat = req.lat
    /\ lng = req.lng
    /\ lat_f = None
    /\ lng_f = None
    /\ candidates = <<>>
    /\ Blank

NextCity ==
    \/ Dispatch
    \/ CityTextSearch
    \/ CityAddressValidation
    \/ AreaFindPlace
    \/ AreaAddressValidation
    \/ AreaTextSearch

SpecCity == InitCity /\ [][NextCity]_vars

\* every combination of absent, empty and non-empty query parameters
PresenceRequests ==
    [address : {None, Str(<<>>), Str(TxtBlank), Str(TxtAddr)},
     lat : {None, Str(<<>>), Str(<<"7">>)},
     lng : {None, Str(<<>>), Str(<<"8">>)},
     city : {None, Str(<<>>), Str(TxtCity)},
     area : {None, Str(<<>>), Str(TxtArea)}]

\* find_dumpyards up to the end of the resolution of the origin (line 1748)
InitResolve ==
    /\ pc = "start"
    /\ req \in PresenceRequests
    /\ lat = req.lat
    /\ lng = req.lng
    /\ lat_f = None
    /\ lng_f = None
    /\ candidates = <<>>
    /\ Blank

NextResolve ==
    \/ Dispatch
    \/ AddrValidation
    \/ AddrTextSearch
    \/ AddrFindPlace
    \/ CityTextSearch
    \/ CityAddressValidation
    \/ AreaFindPlace
    \/ AreaAddressValidation
    \/ AreaTextSearch
    \/ CheckOrigin
    \/ Geolocate

SpecResolve == InitResolve /\ [][NextResolve]_vars

\* the contact view, called any number of times on two empty tables
InitContact ==
    /\ pc = "contact"
    /\ req = [address |-> None, lat |-> None, lng |-> None,
              city |-> None, area |-> None]
    /\ lat = None
    /\ lng = None
    /\ lat_f = None
    /\ lng_f = None
    /\ candidates = <<>>
    /\ Blank

NextContact == Contact

SpecContact == InitContact /\ [][NextContact]_vars

-----------------------------------------------------------------------------
(* Vocabulary of the properties *)

AddrPcs == {"addr_av", "addr_ts", "addr_fp"}
CityPcs == {"city_ts", "city_av", "area_fp", "area_av", "area_ts"}
GeoApis == {"addressvalidation", "textsearch", "findplace"}
NoCoord == <<None, None>>

CallsTo(apis) == SelectSeq(calls, LAMBDA c : c.api \in apis)
\* the calls made by the resolver of this request, in order
GeoCalls == CallsTo(GeoApis)

\* the request is handled by the address resolver / by the city-area resolver
OnAddressPath == Truthy(req.address)
OnCityPath ==
    /\ ~Truthy(req.address)
    /\ Truthy(req.city) \/ Truthy(req.area)
    /\ ~(Truthy(req.lat) /\ Truthy(req.lng))
BothGiven == Truthy(req.lat) /\ Truthy(req.lng)

IsSuccess(r) == r.kind = "json" /\ r.status = 200
IsError(r) == r.kind = "json" /\ r.status = 400

-----------------------------------------------------------------------------
(* C1 - C5 *)

AddrOrder == <<"addressvalidation", "textsearch", "findplace">>

\* C1 (order): the address resolver calls address-validation, text-search,
\* find-place in that order, and a provider is called only if every provider
\* before it yielded no coordinate.
C1_Order ==
    OnAddressPath =>
        /\ Len(GeoCalls) <= 3
        /\ \A i \in 1..Len(GeoCalls) :
             GeoCalls[i].api = AddrOrder[i] /\ GeoCalls[i].query = norm
        /\ \A i \in 1..(Len(GeoCalls) - 1) : GeoCalls[i].got = NoCoord

\* C1 (result): when the resolver returns after a provider yielded a
\* coordinate, it returns that provider's coordinate.
C1_FirstYield ==
    (OnAddressPath /\ pc = "resolved" /\ GeoCalls # <<>>
        /\ GeoCalls[Len(GeoCalls)].got # NoCoord)
    => <<lat, lng>> = GeoCalls[Len(GeoCalls)].got

\* C1 (exhaustion): for a non-empty normalized address the resolver returns no
\* coordinate only after all three providers were called and failed.
C1_Exhausted ==
    (OnAddressPath /\ pc = "resolved" /\ norm # <<>> /\ (lat = None \/ lng = None))
    => /\ Len(GeoCalls) = 3
       /\ \A i \in 1..3 : GeoCalls[i].got = NoCoord

\* C1: _address_to_latlng_with_debug calls its providers in the fixed order,
\* stops at and returns the first coordinate yielded, and returns no
\* coordinate for a non-empty normalized address only after all three failed.
C1_Claim == C1_Order /\ C1_FirstYield /\ C1_Exhausted

\* C2: every request ends with a JSON response, a success or a structured
\* error; no provider exception leaves find_dumpyards.
C2_Claim == pc = "done" => (IsSuccess(resp) \/ IsError(resp))

\* C3: every failure of one provider is absorbed by the address resolver: no
\* exception leaves it, and it does not end after address-validation or
\* text-search failed to yield a coordinate: the next provider is called.
C3_Claim ==
    /\ (OnAddressPath /\ pc \in AddrPcs \cup {"resolved"}) => resp = NoResp
    /\ (OnAddressPath /\ pc = "resolved" /\ GeoCalls # <<>>
           /\ GeoCalls[Len(GeoCalls)].got = NoCoord)
       => GeoCalls[Len(GeoCalls)].api = "findplace"

GeolocateCalls == Len(CallsTo({"geolocate"}))
SearchCalls == Len(CallsTo({"nearbysearch", "distancematrix"}))

\* C4 (fallback taken): a resolver result without a coordinate sends the
\* handler to geolocation, which is called exactly once.
C4_Fallback ==
    /\ (pc = "resolved" /\ (lat = None \/ lng = None)) => pc' = "geolocate"
    /\ pc = "geolocate" =>
          /\ GeolocateCalls = 0
          /\ calls' = Append(calls, calls'[Len(calls')])
          /\ calls'[Len(calls')].api = "geolocate"
    /\ pc # "geolocate" => calls' = calls \/ calls'[Len(calls')].api # "geolocate"

\* C4 (fallback outcome): a geolocated coordinate becomes the origin and the
\* request goes on to searching; without one the response is the HTTP 400
\* error with a hint and no origin, and no search call has been made.
C4_Outcome ==
    pc = "geolocate" =>
        LET g == calls'[Len(calls')].got
        IN IF g # NoCoord
           THEN lat' = g[1] /\ lng' = g[2] /\ pc' = "parse" /\ resp' = NoResp
           ELSE /\ pc' = "done"
                /\ IsError(resp')
                /\ "hint" \in DOMAIN resp'.body
                /\ resp'.body.hint # ""
                /\ "origin" \notin DOMAIN resp'.body
                /\ SearchCalls = 0

\* C4: when the resolver yields no coordinate, geolocation is called exactly
\* once; its coordinate becomes the origin, and its failure gives the HTTP 400
\* error with a hint, no origin and no search call.
C4_Claim == [][C4_Fallback /\ C4_Outcome]_vars

-----------------------------------------------------------------------------
(* C6 - C10 *)

\* position in the candidate list of the candidate a ranked entry was made of
PlaceIndex(e) ==
    CHOOSE i \in 1..Len(candidates) : candidates[i].place_id = e.place_id

OkOnly == SelectSeq(elements, LAMBDA el : el.status = "OK")
Durations(seq) == [i \in 1..Len(seq) |-> seq[i].duration_value]

\* C6: the result of _distance_matrix is in ascending order of duration, then
\* of distance, and entries equal in both keep the order of their candidates;
\* durations [600, 300] come out as [300, 600], and of two entries of 400 s at
\* 1000 m and 900 m the one at 900 m comes first.
C6_StableTwoKeySort ==
    pc = "ranked" =>
        /\ \A i \in 1..(Len(ranked) - 1) :
             \/ ranked[i].duration_value < ranked[i + 1].duration_value
             \/ /\ ranked[i].duration_value = ranked[i + 1].duration_value
                /\ ranked[i].distance_value <= ranked[i + 1].distance_value
        /\ \A i \in 1..Len(ranked) : \A j \in (i + 1)..Len(ranked) :
             (/\ ranked[i].duration_value = ranked[j].duration_value
              /\ ranked[i].distance_value = ranked[j].distance_value)
             => PlaceIndex(ranked[i]) < PlaceIndex(ranked[j])
        /\ [i \in 1..Len(OkOnly) |-> OkOnly[i].duration] = <<600, 300>>
             => Durations(ranked) = <<300, 600>>
        /\ (/\ Len(OkOnly) = 2
            /\ OkOnly[1].duration = 400 /\ OkOnly[1].distance = 1000
            /\ OkOnly[2].duration = 400 /\ OkOnly[2].distance = 900)
           => (ranked[1].distance_value = 900 /\ ranked[2].distance_value = 1000)

\* three entries of 400 s: the one at 1000 m was first in the input, the two at
\* 900 m tie in both keys
C6_Witness ==
    /\ pc = "ranked"
    /\ Len(elements) = 3
    /\ \A i \in 1..3 : elements[i].status = "OK" /\ elements[i].duration = 400
    /\ elements[1].distance = 1000
    /\ elements[2].distance = 900
    /\ elements[3].distance = 900
    /\ [i \in 1..3 |-> ranked[i].place_id] = <<2, 3, 1>>

\* C7: _distance_matrix returns exactly one entry per element whose status is
\* OK, made of the candidate at the element's index and of the element's
\* distance and duration; other elements give no entry and no failure.
C7_OneEntryPerOkElement ==
    pc = "ranked" =>
        LET ok == {i \in 1..Len(elements) : elements[i].status = "OK"}
        IN /\ Len(ranked) = Cardinality(ok)
           /\ \A i \in ok :
                LET at == {k \in 1..Len(ranked) :
                             ranked[k].place_id = candidates[i].place_id}
                IN /\ Cardinality(at) = 1
                   /\ \A k \in at :
                        /\ ranked[k].name = candidates[i].name
                        /\ ranked[k].lat = candidates[i].lat
                        /\ ranked[k].lng = candidates[i].lng
                        /\ ranked[k].distance_value = elements[i].distance
                        /\ ranked[k].duration_value = elements[i].duration

\* statuses [OK, OK, ZERO_RESULTS] with durations [600, 300, _]
C7_Witness ==
    /\ pc = "ranked"
    /\ Len(elements) = 3
    /\ elements[1].status = "OK" /\ elements[1].duration = 600
    /\ elements[2].status = "OK" /\ elements[2].duration = 300
    /\ elements[3].status = "ZERO_RESULTS"
    /\ Len(ranked) = 2
    /\ Durations(ranked) = <<300, 600>>

\* the calls of the city stage and those of the area refinement
CityStageLen ==
    IF GeoCalls = <<>> THEN 0
    ELSE IF GeoCalls[1].got # NoCoord THEN 1
    ELSE IF Len(GeoCalls) >= 2 THEN 2 ELSE 1
RefCalls == SubSeq(GeoCalls, CityStageLen + 1, Len(GeoCalls))
CityYielded == city_lat # None /\ city_lng # None

\* C8: once the city stage has yielded a coordinate, _geocode_city_area
\* returns a coordinate: the city's when area is empty (and no refinement was
\* called), the first successful refinement's when one succeeds, and the
\* city's when every refinement failed, however it failed.
C8_Claim ==
    (OnCityPath /\ pc = "resolved" /\ CityYielded) =>
        /\ lat # None /\ lng # None
        /\ IF narea = <<>>
           THEN RefCalls = <<>> /\ <<lat, lng>> = <<city_lat, city_lng>>
           ELSE IF RefCalls # <<>> /\ RefCalls[Len(RefCalls)].got # NoCoord
           THEN <<lat, lng>> = RefCalls[Len(RefCalls)].got
           ELSE <<lat, lng>> = <<city_lat, city_lng>>

\* C9: _geocode_city_area resolves the city by text search first and calls
\* address-validation for the city only if text search yielded no coordinate;
\* if neither yields one it returns no coordinate and calls no refinement.
C9_CityStage ==
    OnCityPath =>
        /\ GeoCalls # <<>> =>
              /\ GeoCalls[1].api = "textsearch"
              /\ GeoCalls[1].query = city_query
              /\ GeoCalls[1].bias = NoBias
        /\ Len(GeoCalls) >= 2 =>
              IF GeoCalls[1].got = NoCoord
              THEN /\ GeoCalls[2].api = "addressvalidation"
                   /\ GeoCalls[2].query = city_query
              ELSE GeoCalls[2].api = "findplace"
        /\ (pc = "resolved" /\ Len(GeoCalls) = 1) => GeoCalls[1].got # NoCoord
        /\ (Len(GeoCalls) >= 2 /\ GeoCalls[1].got = NoCoord
               /\ GeoCalls[2].got = NoCoord) =>
              /\ Len(GeoCalls) = 2
              /\ pc \notin CityPcs
              /\ pc = "resolved" => (lat = None /\ lng = None)

C9_Witness ==
    /\ OnCityPath
    /\ pc = "resolved"
    /\ narea # <<>>
    /\ Len(GeoCalls) = 2
    /\ GeoCalls[1].got = NoCoord
    /\ GeoCalls[2].got = NoCoord
    /\ lat = None

RefineRank(api) ==
    CASE api = "findplace" -> 1
      [] api = "addressvalidation" -> 2
      [] api = "textsearch" -> 3

-----------------------------------------------------------------------------
(* C11 - C20 *)

\* two outbound calls with the same endpoint and the same query parameters
SameCall(a, b) == a.api = b.api /\ a.query = b.query /\ a.bias = b.bias

\* C11: within one request no endpoint is called twice with identical query
\* parameters; in particular find-place is never sent the same area text twice.
C11_Claim ==
    \A i \in 1..Len(calls) : \A j \in (i + 1)..Len(calls) :
        ~SameCall(calls[i], calls[j])

NearbyCalls == Len(CallsTo({"nearbysearch"}))
DistanceCalls == Len(CallsTo({"distancematrix"}))

\* C12: when nearby-search answers with zero results (the call itself did not
\* raise), the candidate list is empty and find_dumpyards ends at once with a
\* success (HTTP 200) carrying the parsed origin and an empty places list.
C12_EmptyIsSuccess ==
    [][(pc = "nearby" /\ resp' # Raised /\ candidates' = <<>>) =>
          /\ pc' = "done"
          /\ IsSuccess(resp')
          /\ resp'.body.origin = <<lat_f, lng_f>>
          /\ resp'.body.places = <<>>
          /\ "error" \notin DOMAIN resp'.body]_vars

C12_Witness ==
    /\ pc = "done"
    /\ NearbyCalls = 1
    /\ candidates = <<>>
    /\ IsSuccess(resp)
    /\ resp.body.places = <<>>
    /\ resp.body.origin = <<Num(7), Num(8)>>

\* C13: every success response has the fields origin, places and nearest;
\* nearest is places[0] when places is non-empty and null when it is empty.
C13_Claim ==
    IsSuccess(resp) =>
        /\ {"origin", "places", "nearest"} \subseteq DOMAIN resp.body
        /\ resp.body.nearest = IF resp.body.places # <<>>
                               THEN resp.body.places[1]
                               ELSE None

\* a query parameter that is present and is not the text of a number
Malformed(v) == v # None /\ ~FloatOk(v)
MalformedCoords == Malformed(req.lat) \/ Malformed(req.lng)

\* C14: a request with a non-numeric lat or lng ends in an error
\* response and no outbound call is ever made for it.
C14_Claim ==
    MalformedCoords =>
        /\ calls = <<>>
        /\ pc = "done" => IsError(resp)

\* C15: the attempts trail of the address resolver has exactly one entry per
\* provider called, in the order of the calls, also in the trail the resolver
\* returns; when the first provider fails and the second yields a coordinate
\* that coordinate is returned and the trail has exactly two entries.
C15_Claim ==
    OnAddressPath =>
        /\ Len(attempts) = Len(GeoCalls)
        /\ \A i \in 1..Len(attempts) : attempts[i].type = GeoCalls[i].api
        /\ (pc = "resolved" /\ norm # <<>>) => geo_dbg.attempts = attempts
        /\ (pc = "resolved" /\ Len(GeoCalls) = 2 /\ GeoCalls[2].got # NoCoord) =>
              /\ <<lat, lng>> = GeoCalls[2].got
              /\ Len(geo_dbg.attempts) = 2
              /\ geo_dbg.attempts[1].type = "addressvalidation"

\* C16: every error response carries a non-empty hint, and its error and hint
\* are the handler's own fixed texts, never a provider's message.
C16_Claim ==
    IsError(resp) =>
        /\ "error" \in DOMAIN resp.body
        /\ resp.body.error \in {ErrorText, InvalidText}
        /\ "hint" \in DOMAIN resp.body
        /\ resp.body.hint = HintText
        /\ HintText # ""

LastGeolocate == CallsTo({"geolocate"})[GeolocateCalls]

\* C17: a coordinate with both components non-null, a zero included, is
\* accepted: the geolocation fallback is not taken for it, a geolocated one
\* becomes the origin, and the resolution error is returned only when
\* geolocation yielded no coordinate.
C17_Claim ==
    /\ pc = "geolocate" => (lat = None \/ lng = None)
    /\ (GeolocateCalls = 1 /\ LastGeolocate.got # NoCoord) =>
          /\ ~IsError(resp) \/ resp.body.error # ErrorText
          /\ pc = "parse" => <<lat, lng>> = LastGeolocate.got

\* the stage of find_dumpyards an outbound call belongs to
StageOfApi(api) ==
    CASE api \in GeoApis \cup {"geolocate"} -> 1
      [] api = "nearbysearch" -> 2
      [] api = "distancematrix" -> 3

\* C18 (order): the calls of one request go through Resolving, Searching,
\* Ranking and never back; nearby-search is called at most once and only with
\* a parsed numeric origin, distance-matrix at most once and only after
\* nearby-search returned candidates.
C18_Order ==
    /\ NearbyCalls <= 1
    /\ DistanceCalls <= 1
    /\ \A i \in 1..Len(calls) : \A j \in (i + 1)..Len(calls) :
          StageOfApi(calls[i].api) <= StageOfApi(calls[j].api)
    /\ NearbyCalls = 1 => (lat_f # None /\ lng_f # None)
    /\ DistanceCalls = 1 => (NearbyCalls = 1 /\ candidates # <<>>)

\* C18 (terminals): a request that ends in Searching or Ranking ends in one of
\* the two terminals, the success result or the error response.
C18_Terminals ==
    (pc = "done" /\ NearbyCalls = 1) => (IsSuccess(resp) \/ IsError(resp))

\* C18 (no error after Resolving): once nearby-search has been called the
\* handler never answers with an error response.
C18_NoErrorAfterSearch == NearbyCalls = 1 => ~IsError(resp)

\* C18: a request moves through Resolving, Searching, Ranking in that order,
\* with at most one nearby-search and one distance-matrix call, and from each
\* stage it ends in the success result or in the error terminal.
C18_Claim == C18_Order /\ C18_Terminals

\* C19: _distance_matrix called with an empty candidate list returns an empty
\* sequence without calling the distance-matrix provider; as long as the
\* candidate list is empty the provider has not been called.
C19_EmptyMakesNoCall ==
    /\ candidates = <<>> => DistanceCalls = 0
    /\ (pc = "ranked" /\ candidates = <<>>) => (ranked = <<>> /\ calls = <<>>)

C19_Witness ==
    /\ pc = "ranked"
    /\ candidates = <<>>
    /\ ranked = <<>>
    /\ DistanceCalls = 0

\* C20: for an address whose trimmed text is non-empty, the normalized form
\* recorded by the address resolver is non-empty, has no whitespace at either
\* end and no two whitespace characters in a row.
C20_NormalizedIsTidy ==
    (pc # "start" /\ Truthy(req.address) /\ Strip(req.address.v) # <<>>) =>
        /\ norm # <<>>
        /\ ~IsSpaceCh(norm[1])
        /\ ~IsSpaceCh(norm[Len(norm)])
        /\ \A i \in 1..(Len(norm) - 1) :
              ~(IsSpaceCh(norm[i]) /\ IsSpaceCh(norm[i + 1]))

C20_Witness ==
    /\ pc = "addr_av"
    /\ req.address = Str(TxtMessy)
    /\ norm = <<"a", " ", "a", ",", " ", "I", "n", "d", "i", "a">>

-----------------------------------------------------------------------------
(* C21 - C30 *)

\* the text names the country, in any letter case
NamesIndia(s) == \E i \in 1..Len(s) : MatchAtCI(s, i, India)

\* C21: the normalized address is the whitespace-collapsed text followed by
\* ", India" exactly when that text is non-empty and does not name India in
\* any letter case, and is the collapsed text itself otherwise; normalizing
\* the normalized address again returns it unchanged.
C21_SuffixOnce ==
    (pc # "start" /\ Truthy(req.address)) =>
        LET c == Join(Split(Strip(req.address.v)), <<" ">>)
        IN /\ IF c # <<>> /\ ~NamesIndia(c)
              THEN norm = c \o <<",", " ", "I", "n", "d", "i", "a">>
              ELSE norm = c
           /\ normalize_address(norm) = norm

\* an address that names the country in capitals gets no suffix
C21_Witness ==
    /\ pc = "addr_av"
    /\ req.address = Str(TxtIndia)
    /\ norm = <<"N", "e", "w", " ", "I", "N", "D", "I", "A">>

\* C22: in the output of _normalize_place_text no occurrence, in any letter
\* case, of one of the five keywords is immediately preceded by a letter.
C22_Claim ==
    (pc # "start" /\ OnCityPath) =>
        \A k \in 1..Len(SuffixWords) : \A i \in 2..Len(narea) :
            MatchAtCI(narea, i, SuffixWords[k]) => ~IsAlphaCh(narea[i - 1])

LJUniversity == <<"L", "J", " ", "U", "n", "i", "v", "e", "r", "s", "i", "t", "y">>

\* C23: for city "Ahmedabad" and area "ljuniversity" the normalized area is
\* exactly "LJ University", and that text is the input of the first find-place
\* query of the refinement.
C23_LjUniversity ==
    (pc # "start" /\ req.city = Str(TxtAhmedabad) /\ req.area = Str(TxtJammed)) =>
        /\ narea = LJUniversity
        /\ ncity = TxtAhmedabad
        /\ RefCalls # <<>> =>
              /\ RefCalls[1].api = "findplace"
              /\ RefCalls[1].query = LJUniversity

C23_Witness ==
    /\ req.city = Str(TxtAhmedabad)
    /\ req.area = Str(TxtJammed)
    /\ RefCalls # <<>>
    /\ RefCalls[1].api = "findplace"
    /\ RefCalls[1].query = LJUniversity

FindPlaceCalls == CallsTo({"findplace"})

\* the area text has a keyword jammed onto the character before it
JammedArea(a) ==
    \E k \in 1..Len(SuffixWords) : \E i \in 2..Len(a) :
        MatchAtCI(a, i, SuffixWords[k]) /\ ~IsSpaceCh(a[i - 1])

\* C24: when find-place did not succeed, a jammed area was sent to it exactly
\* twice, the second time with a space inserted before the keyword, and an
\* area that is not jammed exactly once.
C24_Claim ==
    (OnCityPath /\ pc \in {"area_av", "area_ts"}) =>
        LET fp == FindPlaceCalls
        IN IF JammedArea(narea)
           THEN /\ Len(fp) = 2
                /\ fp[1].query = narea
                /\ fp[2].query # narea
                /\ SelectSeq(fp[2].query, LAMBDA c : c # " ")
                      = SelectSeq(narea, LAMBDA c : c # " ")
           ELSE /\ Len(fp) = 1
                /\ fp[1].query = narea

Supplied == Truthy(req.address) \/ Truthy(req.city) \/ Truthy(req.area)

\* C25: the handler never reads geo_dbg while it is unassigned: whenever the
\* geolocation fallback is about to run for a request with an address, a city
\* or an area, geo_dbg has been assigned, no exception ends the resolution,
\* and the resolution error carries geocode_debug, equal to the value assigned
\* by the resolver, exactly when address, city or area was supplied.
C25_DebugAssigned ==
    /\ (pc = "geolocate" /\ Supplied) => geo_dbg # Unassigned
    /\ resp # Raised
    /\ IsError(resp) =>
          /\ ("geocode_debug" \in DOMAIN resp.body) <=> Supplied
          /\ Supplied =>
                /\ resp.body.geocode_debug = geo_dbg
                /\ geo_dbg # Unassigned

C25_Witness ==
    /\ req.address = Str(<<>>)
    /\ req.city = Str(TxtCity)
    /\ req.lat = Str(<<"7">>)
    /\ req.lng = Str(<<>>)
    /\ IsError(resp)
    /\ "geocode_debug" \in DOMAIN resp.body
    /\ resp.body.geocode_debug.steps # <<>>

\* how far a request has come: the position in the handler
PcRank ==
    CASE pc = "start" -> 0
      [] pc \in AddrPcs \cup CityPcs -> 1
      [] pc = "resolved" -> 2
      [] pc = "geolocate" -> 3
      [] pc = "parse" -> 4
      [] pc = "nearby" -> 5
      [] pc = "dm" -> 6
      [] pc = "ranked" -> 7
      [] pc = "done" -> 8

\* the bounds on the outbound calls of one request
CallBounds ==
    /\ OnAddressPath => Len(calls) <= 6
    /\ OnCityPath => Len(calls) <= 9
    /\ (~OnAddressPath /\ ~OnCityPath) => Len(calls) <= 3
    /\ Len(GeoCalls) <= IF OnAddressPath THEN 3 ELSE IF OnCityPath THEN 6 ELSE 0
    /\ GeolocateCalls <= 1
    /\ NearbyCalls <= 1
    /\ DistanceCalls <= 1

\* C26: every step of a request makes one more outbound call or moves the
\* handler forward, one call at a time, so the request terminates; it makes at
\* most 6 calls on the address path and at most 9 on the city/area path, with
\* geolocation, nearby-search and distance-matrix called at most once each.
C26_BoundedCalls ==
    [][/\ Len(calls') + PcRank' > Len(calls) + PcRank
       /\ Len(calls') <= Len(calls) + 1
       /\ CallBounds']_vars

\* a request on the city/area path that made all nine calls
C26_Witness ==
    /\ OnCityPath
    /\ pc = "done"
    /\ Len(calls) = 9
    /\ Len(GeoCalls) = 6
    /\ GeolocateCalls = 1
    /\ NearbyCalls = 1
    /\ DistanceCalls = 1

\* the request supplies no address, city or area and not both lat and lng
Bare == ~Supplied /\ ~BothGiven

\* C27: a request without address, city and area and without both lat and lng
\* makes no geocoding call and calls geolocation exactly once; when
\* geolocation yields a coordinate the request ends as a success with that
\* origin, otherwise as the HTTP 400 error without geocode_debug.
C27_Claim ==
    Bare =>
        /\ GeoCalls = <<>>
        /\ GeolocateCalls = IF pc \in {"start", "resolved", "geolocate"} THEN 0 ELSE 1
        /\ (GeolocateCalls = 1 /\ LastGeolocate.got # NoCoord /\ pc = "done") =>
              /\ IsSuccess(resp)
              /\ resp.body.origin = LastGeolocate.got
        /\ (GeolocateCalls = 1 /\ LastGeolocate.got = NoCoord) =>
              /\ pc = "done"
              /\ IsError(resp)
              /\ "geocode_debug" \notin DOMAIN resp.body

WhitespaceAddress == Truthy(req.address) /\ Strip(req.address.v) = <<>>

\* C28: for an address made of whitespace only the handler takes the address
\* branch, whatever else the request carries: the resolver returns no
\* coordinate with an empty attempts trail, no geocoding provider is called,
\* the city/area resolver does not run, and the next call is geolocation.
C28_WhitespaceAddress ==
    WhitespaceAddress =>
        /\ GeoCalls = <<>>
        /\ attempts = <<>>
        /\ steps = <<>>
        /\ pc \notin AddrPcs \cup CityPcs
        /\ pc = "resolved" =>
              /\ lat = None /\ lng = None
              /\ geo_dbg = [normalized |-> <<>>, attempts |-> <<>>]
        /\ pc \notin {"start", "resolved", "geolocate"} =>
              /\ GeolocateCalls = 1
              /\ calls[1].api = "geolocate"

C28_Witness ==
    /\ WhitespaceAddress
    /\ Truthy(req.city)
    /\ Truthy(req.area)
    /\ BothGiven
    /\ FloatOk(req.lat)
    /\ GeolocateCalls = 1
    /\ pc = "done"

\* C29: _geocode_city_area returns without calling a provider exactly when
\* city and area both normalize to the empty text, and then returns no
\* coordinate; with an empty city and a non-empty area the city stage asks
\* for the area text with the country suffix, and the refinements ask for the
\* same area text, around the coordinate the city stage produced.
C29_AreaAsCity ==
    (OnCityPath /\ pc # "start") =>
        /\ ncity = _normalize_place_text(OrEmpty(req.city))
        /\ narea = _normalize_place_text(OrEmpty(req.area))
        /\ (ncity = <<>> /\ narea = <<>>) =>
              /\ GeoCalls = <<>>
              /\ pc \notin CityPcs
              /\ pc = "resolved" => (lat = None /\ lng = None)
        /\ (pc = "resolved" /\ GeoCalls = <<>>) => (ncity = <<>> /\ narea = <<>>)
        /\ (ncity = <<>> /\ narea # <<>>) =>
              LET ref == RefCalls
                  q == IF NamesIndia(narea) THEN narea
                       ELSE narea \o <<",", " ", "I", "n", "d", "i", "a">>
              IN /\ city_query = q
                 /\ \A i \in 1..CityStageLen : GeoCalls[i].query = q
                 /\ \A i \in 1..Len(ref) :
                       /\ ref[i].bias = <<city_lat, city_lng>>
                            \/ ref[i].api = "addressvalidation"
                       /\ IF ref[i].api = "findplace" /\ i > 1
                          THEN SelectSeq(ref[i].query, LAMBDA c : c # " ")
                                  = SelectSeq(narea, LAMBDA c : c # " ")
                          ELSE ref[i].query = narea

\* a blank city and the area "old": the city stage resolved the area text and
\* every refinement asked for it again
C29_Witness ==
    /\ req.city = Str(TxtBlank)
    /\ req.area = Str(TxtArea)
    /\ pc = "resolved"
    /\ CityYielded
    /\ Len(RefCalls) = 4
    /\ RefCalls[4].api = "textsearch"
    /\ RefCalls[4].query = <<"O", "L", "D">>

\* a text that is not empty and has no blank at either end
Trimmed(s) == s # <<>> /\ ~IsSpaceCh(s[1]) /\ ~IsSpaceCh(s[Len(s)])

StoredValid ==
    /\ \A i \in 1..Len(feedbacks) :
          /\ Trimmed(feedbacks[i].name)
          /\ feedbacks[i].rating \in 1..5
    /\ \A i \in 1..Len(contact_messages) :
          /\ Trimmed(contact_messages[i].name)
          /\ Trimmed(contact_messages[i].email)
          /\ Trimmed(contact_messages[i].message)

\* a call of contact that is no submission, or whose form_type is neither
\* form, or whose required fields are blank, or whose rating is not an
\* integer of 1..5
Rejected(p) ==
    IF p.method # "POST" THEN TRUE
    ELSE IF Field(p.form_type) = TxtContact
    THEN Field(p.name) = <<>> \/ Field(p.email) = <<>> \/ Field(p.message) = <<>>
    ELSE IF Field(p.form_type) = TxtFeedback
    THEN \/ Field(p.name) = <<>>
         \/ ~int(Field(p.rating)).ok
         \/ int(Field(p.rating)).v \notin 1..5
    ELSE TRUE

RejectedStoresNothing ==
    /\ Len(feedbacks') + Len(contact_messages')
          <= Len(feedbacks) + Len(contact_messages) + 1
    /\ Rejected(post') =>
          /\ feedbacks' = feedbacks
          /\ contact_messages' = contact_messages
          /\ context' \cap {"contact_success", "feedback_success"} = {}

\* C30: every Feedback row contact created has a trimmed non-empty name and
\* a rating in 1..5, every ContactMessage row has a trimmed non-empty name,
\* email and message, and a call whose fields fail these checks, whose
\* rating is no integer or whose form_type is unknown leaves both tables as
\* they were.
C30_StoredRecordsValid == []StoredValid /\ [][RejectedStoresNothing]_vars

\* one feedback is stored with the rating 5 read from " 5 ", and the next
\* submission, rated "3.5", was refused
C30_Witness ==
    /\ Len(feedbacks) = 1
    /\ feedbacks[1].name = <<"a">>
    /\ feedbacks[1].rating = 5
    /\ contact_messages = <<>>
    /\ post.method = "POST"
    /\ Field(post.form_type) = TxtFeedback
    /\ post.name = Str(TxtName)
    /\ post.rating = Str(<<"3", ".", "5">>)
    /\ context = {"feedback_error"}

=============================================================================
